---- MODULE Spec2Model ----
(***************************************************************************)
(* A model of tractmapper's get_subject_tract_coordinates.py: the format   *)
(* cascade (.vtp -> .vtk -> .trk), the matching of atlas streamlines to    *)
(* clusters, the relabelling by tract, the extraction of fiber end points, *)
(* the conversion from mm to voxels and the script that sequences them.    *)
(*                                                                         *)
(* Python values are modelled as follows.  A path is a record              *)
(* [dir, ext] (the base name is the asset the step is about); None is a    *)
(* record of the same shape.  A streamline is a sequence of points, a      *)
(* point a triple of integers.  A dict is a function; the order in which   *)
(* a dict is iterated (arbitrary in Python 2) is an argument drawn from    *)
(* the permutations of its keys.  An exception is a record [kind, args];   *)
(* a function that may raise returns [exc, val].  Sequences are 1-based:   *)
(* Python index i is position i + 1.                                       *)
(***************************************************************************)
EXTENDS Integers, Sequences, FiniteSets, TLC

VARIABLES
    pc,               \* position in the script / in the called function
    entry,            \* the function the caller entered the module by
    err,              \* the exception that ended the run (NoErr: none)
    status,           \* the process's exit status (-1: still running)
    output,           \* the output document, once emitted
    anatFile,         \* <anatFile> argument: "anat.nii" or "None"
    outDir,           \* outDir of get_streams_from_file: a directory or "None"
    asset,            \* the asset the current step is about
    files,            \* the current asset's files on disk: a set of paths
    target_f,         \* the caller's resolved file (a path or NoPath)
    fName,            \* get_streams_from_file's fName
    convert_to_vtk,   \* get_streams_from_file's flag
    convert_to_trk,   \* get_streams_from_file's flag
    tmpDir,           \* get_streams_from_file's tmpDir ("None" if none)
    tmpDirs,          \* the temporary directories that exist on disk
    calls,            \* the commands handed to __run_cmd for this asset, in order
    registrations,    \* how often register_tractography was called in the run
    todo,             \* convert_clusters_to_streams: clusters still to process
    streams_raw,      \* atlas_streams['raw'] / fiber_streams
    streams_reg,      \* atlas_streams['registered'] / streamlines
    cluster_streams,  \* dict cluster id -> list of streamlines
    tract_map,        \* MapTracts.tract_map: dict tract -> list of (cluster, file)
    matches,          \* the label list: cluster ids, then tract names
    tract_ends,       \* dict tract -> {starts, ends}
    affine            \* img.affine of the anatomy file

vars == <<pc, entry, err, status, output, anatFile, outDir, asset, files,
          target_f, fName, convert_to_vtk, convert_to_trk, tmpDir, tmpDirs,
          calls, registrations, todo, streams_raw, streams_reg,
          cluster_streams, tract_map, matches, tract_ends, affine>>

(***************************************************************************)
(* Bounds of the model.                                                    *)
(***************************************************************************)
\* longest list of streamlines (and of labels) handed to a function
MaxFibers == 3
\* most streamlines held by all cluster files together
MaxClusterStreams == 3

(***************************************************************************)
(* The data the functions are run on.                                      *)
(***************************************************************************)
P0 == <<0, 0, 0>>
P1 == <<1, 0, 0>>
P2 == <<0, 2, 0>>
P3 == <<3, 1, 2>>

\* atlas-space streamlines; S1 is a proper prefix of S3
S1 == <<P0, P1>>
S2 == <<P0, P2>>
S3 == <<P0, P1, P2>>
Streams == {S1, S2, S3}

\* subject-space (registered) streamlines, and one with no points
R1 == <<P3, P1>>
R2 == <<P2, P3, P0>>
Empty == <<>>
RegStreams == {R1, R2}

ClusterIds == {"c1", "c2", "c3"}
Tracts == {"A", "B"}

EmptyDict == [x \in {} |-> x]
NoErr == [kind |-> "None", args |-> <<>>]
NoPath == [dir |-> "None", ext |-> "None"]
NoDoc == [written |-> FALSE, body |-> EmptyDict]

SeqsUpTo(S, n) == UNION {[1..k -> S] : k \in 0..n}
Perms(S) == LET n == Cardinality(S)
            IN  {p \in [1..n -> S] : \A i, j \in 1..n : i # j => p[i] # p[j]}
Min(S) == CHOOSE x \in S : \A y \in S : x <= y
Range(s) == {s[i] : i \in DOMAIN s}

\* the text of a Python index, as str.format would print it
IndexText(i) == ToString(i)

(***************************************************************************)
(* match_fibers_to_clusters                                                *)
(***************************************************************************)
\* a plausible bug: compares the points both arrays have, not the shapes
array_equal_prefix(a1, a2) ==
    \A i \in 1..(IF Len(a1) < Len(a2) THEN Len(a1) ELSE Len(a2)) :
        \A k \in 1..3 : a1[i][k] = a2[i][k]

\* numpy.array_equal: the same shape and the same elements
array_equal(a1, a2) ==
    IF Len(a1) # Len(a2)
    THEN FALSE
    ELSE \A i \in 1..Len(a1) : \A k \in 1..3 : a1[i][k] = a2[i][k]

\* lines 296-299, the streamlines: the clusters in dict order, flattened
RECURSIVE cluster_streams_flat(_, _)
cluster_streams_flat(cs, order) ==
    IF order = <<>>
    THEN <<>>
    ELSE cs[Head(order)] \o cluster_streams_flat(cs, Tail(order))

\* a plausible bug: one label per cluster instead of one per streamline
cluster_labels_per_cluster(cs, order) == order

\* lines 296-299, the labels: one per flattened streamline
RECURSIVE cluster_labels_flat(_, _)
cluster_labels_flat(cs, order) ==
    IF order = <<>>
    THEN <<>>
    ELSE [k \in 1..Len(cs[Head(order)]) |-> Head(order)]
             \o cluster_labels_flat(cs, Tail(order))

\* a plausible bug: str.find-like, position 1 (Python 0) when nothing is found
index_True_or_first(bools) ==
    IF \E k \in DOMAIN bools : bools[k]
    THEN Min({k \in DOMAIN bools : bools[k]})
    ELSE 1

\* list.index(True): the first position holding True; 0 stands for the
\* ValueError list.index raises when there is none
index_True(bools) ==
    IF \E k \in DOMAIN bools : bools[k]
    THEN Min({k \in DOMAIN bools : bools[k]})
    ELSE 0

\* lines 304-309: the loop from fiber i on, matches being the list so far
RECURSIVE match_loop(_, _, _, _, _)
match_loop(i, fiber_streams, flat, labels, acc) ==
    IF i > Len(fiber_streams)
    THEN [exc |-> NoErr, val |-> acc]
    ELSE LET bools == [k \in 1..Len(flat) |->
                          array_equal(fiber_streams[i], flat[k])]
             idx == index_True(bools)
         IN  IF idx = 0
             THEN [exc |-> [kind |-> "ValueError",
                            args |-> <<"True is not in list">>],
                   val |-> <<>>]
             ELSE IF idx > Len(labels)
             THEN [exc |-> [kind |-> "IndexError",
                            args |-> <<"list index out of range">>],
                   val |-> <<>>]
             ELSE match_loop(i + 1, fiber_streams, flat, labels,
                             Append(acc, labels[idx]))

\* match_fibers_to_clusters, the dict being iterated in the given order
match_fibers_to_clusters(fiber_streams, cs, order) ==
    match_loop(1, fiber_streams, cluster_streams_flat(cs, order),
               cluster_labels_flat(cs, order), <<>>)

(***************************************************************************)
(* map_clusters_to_tracts                                                  *)
(***************************************************************************)
\* lines 356-358 for one tract: cluster_map[cluster] = tract, v[0] of each pair
RECURSIVE index_clusters(_, _, _)
index_clusters(pairs, tract, cluster_map) ==
    IF pairs = <<>>
    THEN cluster_map
    ELSE index_clusters(Tail(pairs), tract,
                        (Head(pairs)[1] :> tract) @@ cluster_map)

\* lines 352-358: the index cluster -> tract, the tracts in dict order
RECURSIVE build_cluster_map(_, _, _)
build_cluster_map(tm, tracts, cluster_map) ==
    IF tracts = <<>>
    THEN cluster_map
    ELSE build_cluster_map(tm, Tail(tracts),
             index_clusters(tm[Head(tracts)], Head(tracts), cluster_map))

\* a plausible bug: dict.get(cluster, cluster), an unknown label is kept
lookup_or_keep(cluster_map, cluster) ==
    IF cluster \in DOMAIN cluster_map
    THEN [exc |-> NoErr, val |-> cluster_map[cluster]]
    ELSE [exc |-> NoErr, val |-> cluster]

\* line 361, cluster_map[cluster]: KeyError(cluster) for a missing key
lookup(cluster_map, cluster) ==
    IF cluster \in DOMAIN cluster_map
    THEN [exc |-> NoErr, val |-> cluster_map[cluster]]
    ELSE [exc |-> [kind |-> "KeyError", args |-> <<cluster>>], val |-> cluster]

\* lines 360-361: the list is rewritten in place, from position i on
RECURSIVE relabel_loop(_, _, _)
relabel_loop(i, cluster_list, cluster_map) ==
    IF i > Len(cluster_list)
    THEN [exc |-> NoErr, val |-> cluster_list]
    ELSE LET r == lookup(cluster_map, cluster_list[i])
         IN  IF r.exc # NoErr
             THEN [exc |-> r.exc, val |-> cluster_list]
             ELSE relabel_loop(i + 1, [cluster_list EXCEPT ![i] = r.val],
                               cluster_map)

\* map_clusters_to_tracts, tract_map.keys() being in the given order
map_clusters_to_tracts(cluster_list, tm, tracts) ==
    relabel_loop(1, cluster_list, build_cluster_map(tm, tracts, EmptyDict))

(***************************************************************************)
(* get_stream_ends                                                         *)
(***************************************************************************)
\* a plausible bug: the except branch forgets the end point
add_ends_starts_only(te, tract, start_coords, end_coords) ==
    IF tract \in DOMAIN te
    THEN [te EXCEPT ![tract] = [starts |-> Append(@.starts, start_coords),
                                ends |-> Append(@.ends, end_coords)]]
    ELSE (tract :> [starts |-> <<start_coords>>, ends |-> <<>>]) @@ te

\* lines 334-341: append to the tract's lists, creating them on KeyError
add_ends(te, tract, start_coords, end_coords) ==
    IF tract \in DOMAIN te
    THEN [te EXCEPT ![tract] = [starts |-> Append(@.starts, start_coords),
                                ends |-> Append(@.ends, end_coords)]]
    ELSE (tract :> [starts |-> <<start_coords>>,
                    ends |-> <<end_coords>>]) @@ te

\* lines 329-341: the loop from streamline i on
RECURSIVE ends_loop(_, _, _, _)
ends_loop(i, streamlines, tractMap, te) ==
    IF i > Len(streamlines)
    THEN [exc |-> NoErr, val |-> te]
    ELSE IF Len(streamlines[i]) = 0
    THEN [exc |-> [kind |-> "IndexError",
                   args |-> <<"index 0 is out of bounds">>],
          val |-> te]
    ELSE ends_loop(i + 1, streamlines, tractMap,
                   add_ends(te, tractMap[i], streamlines[i][1],
                            streamlines[i][Len(streamlines[i])]))

\* a plausible bug: no assertion, the streamlines and the labels are paired
\* up to the shorter of the two
get_stream_ends_truncating(streamlines, tractMap) ==
    LET n == IF Len(tractMap) < Len(streamlines)
             THEN Len(tractMap) ELSE Len(streamlines)
    IN  ends_loop(1, SubSeq(streamlines, 1, n), SubSeq(tractMap, 1, n),
                  EmptyDict)

\* get_stream_ends: the assertion of lines 325-327, then the loop
get_stream_ends(streamlines, tractMap) ==
    IF Len(tractMap) # Len(streamlines)
    THEN [exc |-> [kind |-> "AssertionError",
                   args |-> <<"All streamlines should be defined in the tractMap">>],
          val |-> EmptyDict]
    ELSE ends_loop(1, streamlines, tractMap, EmptyDict)

(***************************************************************************)
(* convert_mm_to_voxels                                                    *)
(***************************************************************************)
\* The affines of the model are a scaling by 1, -1 or 0 per axis followed by
\* a translation: [scale, trans].  One with a zero scale is singular.
Identity == [scale |-> <<1, 1, 1>>, trans |-> <<0, 0, 0>>]
FlipShift == [scale |-> <<-1, 1, 1>>, trans |-> <<2, 0, -1>>]
Singular == [scale |-> <<1, 0, 1>>, trans |-> <<0, 1, 0>>]
Affines == {Identity, FlipShift, Singular}

det(a) == a.scale[1] * a.scale[2] * a.scale[3]

\* numpy.linalg.inv for these affines (1/s = s for s in {1, -1})
inv(a) == [scale |-> a.scale,
           trans |-> [k \in 1..3 |-> 0 - a.scale[k] * a.trans[k]]]

\* nibabel.affines.apply_affine on a list of points
apply_affine(a, pts) ==
    [i \in 1..Len(pts) |-> [k \in 1..3 |-> a.scale[k] * pts[i][k] + a.trans[k]]]

\* lines 373-383: every tract's lists replaced by their voxel coordinates;
\* inv is evaluated inside the loop, once per tract
convert_mm_to_voxels(coords, a) ==
    IF DOMAIN coords # {} /\ det(a) = 0
    THEN [exc |-> [kind |-> "LinAlgError", args |-> <<"Singular matrix">>],
          val |-> coords]
    ELSE [exc |-> NoErr,
          val |-> [key \in DOMAIN coords |->
                      [starts |-> apply_affine(inv(a), coords[key].starts),
                       ends |-> apply_affine(inv(a), coords[key].ends)]]]

(***************************************************************************)
(* The file formats, __run_cmd and the converters                          *)
(***************************************************************************)
\* line 182, in the order get_most_advanced_file tries them
Exts == <<".trk", ".vtk", ".vtp">>
\* a plausible bug: the least processed file first
ExtsRawFirst == <<".vtp", ".vtk", ".trk">>

Path(d, e) == [dir |-> d, ext |-> e]

\* the files of an asset with extensions es in directory d
FilesIn(d, es) == {Path(d, e) : e \in es}

\* a plausible bug: tries the extensions from the raw file up
get_most_advanced_file_raw_first(d, fs) ==
    LET hits == {i \in 1..Len(ExtsRawFirst) : Path(d, ExtsRawFirst[i]) \in fs}
    IN  IF hits = {} THEN NoPath ELSE Path(d, ExtsRawFirst[Min(hits)])

\* get_most_advanced_file(<d>/<asset>): the first of .trk, .vtk, .vtp that
\* exists among the files fs, None when none does
get_most_advanced_file(d, fs) ==
    LET hits == {i \in 1..Len(Exts) : Path(d, Exts[i]) \in fs}
    IN  IF hits = {} THEN NoPath ELSE Path(d, Exts[Min(hits)])

\* lines 51-65: the names the module imports
ImportedNames == {"os", "subprocess", "tempdir", "logging", "sys", "shutil",
                  "re", "glob", "json", "docopt", "np", "npl", "MapTracts",
                  "nib", "tv"}

\* how subprocess.check_call(command) can end: a command holding None cannot
\* be executed (TypeError); otherwise it runs and succeeds, exits non-zero
\* (CalledProcessError), is not found (OSError, errno 2) or cannot be started
\* (another OSError)
CheckCallOutcomes(hasNone) ==
    IF hasNone
    THEN {"TypeError"}
    ELSE {"ok", "CalledProcessError", "ENOENT", "OSError"}

\* a plausible bug: the error is logged and the run goes on
run_cmd_log_only(tool, outcome) ==
    IF outcome = "TypeError"
    THEN [kind |-> "TypeError",
          args |-> <<"execv() arg 2 must contain only strings">>]
    ELSE NoErr

\* __run_cmd: the exception the caller sees, if any.  A failed or missing
\* command ends in sys.exit(msg); any other exception is not caught
run_cmd(tool, outcome) ==
    IF outcome = "ok"
    THEN NoErr
    ELSE IF outcome = "CalledProcessError"
    THEN [kind |-> "SystemExit", args |-> <<"failed with exit code", tool>>]
    ELSE IF outcome = "ENOENT"
    THEN [kind |-> "SystemExit", args |-> <<"Failed to find command", tool>>]
    ELSE IF outcome = "OSError"
    THEN [kind |-> "SystemExit", args |-> <<"failed. With excuse", tool>>]
    ELSE [kind |-> "TypeError",
          args |-> <<"execv() arg 2 must contain only strings">>]

PointsetConverter == "convert-pointset"
TrajectoryConverter == "TractConverter.py"
Registration == "wm_register_to_atlas_new.py"

\* the record of one command handed to __run_cmd
Call(tool, a, anat, outcome) ==
    [tool |-> tool, asset |-> a, anat |-> anat, outcome |-> outcome]

\* line 203: the exit of get_streams_from_file for a .vtp without anatomy
AnatomyRequired ==
    [kind |-> "SystemExit",
     args |-> <<"An anatomy file is required to convert vtp to vtk">>]

\* the longest streamline list a tractography file of the script's run holds
MaxFileFibers == 2

\* what tv.read may find in the .trk file of an asset: the atlas files hold
\* any list of the two streamlines, a cluster file copies of one of them
TrkContents(a) ==
    IF a = "atlas_reg"
    THEN SeqsUpTo(RegStreams, MaxFileFibers)
    ELSE IF a \in {"atlas", "file"}
    THEN SeqsUpTo({S1, S2}, MaxFileFibers)
    ELSE SeqsUpTo({IF a = "c1" THEN S1 ELSE S2}, MaxFileFibers - 1)

(***************************************************************************)
(* The state before anything has run, and the inputs the functions of the  *)
(* module are called with.                                                 *)
(***************************************************************************)
\* a set as a list, in some order
SetToSeq(S) == CHOOSE p \in Perms(S) : TRUE

\* the cluster files' contents: e lists (streamline, cluster) in file order
ClusterSetOf(e) ==
    [c \in ClusterIds |->
        LET InC(x) == x[2] = c
            sel == SelectSeq(e, InC)
        IN  [k \in 1..Len(sel) |-> sel[k][1]]]

ClusterSets ==
    {ClusterSetOf(e) : e \in SeqsUpTo(Streams \X ClusterIds, MaxClusterStreams)}

\* MapTracts.tract_map for a hierarchy in which owner[c] is the tract that
\* cluster c is filed under ("none": under no tract)
TractMapOf(owner) ==
    [t \in Tracts |->
        LET cs == SetToSeq({c \in ClusterIds : owner[c] = t})
        IN  [k \in 1..Len(cs) |-> <<cs[k], cs[k] \o ".vtp">>]]

TractMaps == {TractMapOf(owner) : owner \in [ClusterIds -> Tracts \cup {"none"}]}

\* nothing has run
IdleRun ==
    /\ err = NoErr
    /\ status = -1
    /\ output = NoDoc
    /\ convert_to_vtk = FALSE
    /\ convert_to_trk = FALSE
    /\ tmpDir = "None"
    /\ tmpDirs = {}
    /\ calls = <<>>
    /\ registrations = 0
    /\ todo = <<>>
    /\ affine = Identity

\* no file has been looked at
IdleFiles ==
    /\ outDir = "None"
    /\ asset = "None"
    /\ files = {}
    /\ target_f = NoPath
    /\ fName = NoPath

\* no data has been read
IdleData ==
    /\ streams_raw = <<>>
    /\ streams_reg = <<>>
    /\ cluster_streams = EmptyDict
    /\ tract_map = EmptyDict
    /\ matches = <<>>
    /\ tract_ends = EmptyDict

Idle == IdleRun /\ IdleFiles

\* a call of match_fibers_to_clusters
InitMatch ==
    /\ entry = "match_fibers_to_clusters"
    /\ pc = "match"
    /\ anatFile = "None"
    /\ cluster_streams \in ClusterSets
    /\ streams_raw \in SeqsUpTo(Streams, MaxFibers)
    /\ streams_reg = <<>>
    /\ tract_map = EmptyDict
    /\ matches = <<>>
    /\ tract_ends = EmptyDict

\* a call of map_clusters_to_tracts
InitResolve ==
    /\ entry = "map_clusters_to_tracts"
    /\ pc = "resolve"
    /\ anatFile = "None"
    /\ tract_map \in TractMaps
    /\ matches \in SeqsUpTo(ClusterIds, MaxFibers)
    /\ streams_raw = <<>>
    /\ streams_reg = <<>>
    /\ cluster_streams = EmptyDict
    /\ tract_ends = EmptyDict

\* a call of get_stream_ends
InitEnds ==
    /\ entry = "get_stream_ends"
    /\ pc = "ends"
    /\ anatFile = "None"
    /\ streams_reg \in SeqsUpTo(RegStreams \cup {Empty}, MaxFibers)
    /\ matches \in SeqsUpTo(Tracts, MaxFibers)
    /\ streams_raw = <<>>
    /\ cluster_streams = EmptyDict
    /\ tract_map = EmptyDict
    /\ tract_ends = EmptyDict

\* a call of convert_mm_to_voxels on the end points of some streamlines
InitVoxels ==
    /\ entry = "convert_mm_to_voxels"
    /\ pc = "voxels"
    /\ anatFile = "anat.nii"
    /\ streams_reg \in SeqsUpTo(RegStreams, MaxFibers)
    /\ matches \in [1..Len(streams_reg) -> Tracts]
    /\ tract_ends = get_stream_ends(streams_reg, matches).val
    /\ streams_raw = <<>>
    /\ cluster_streams = EmptyDict
    /\ tract_map = EmptyDict

InitFn == Idle /\ (InitMatch \/ InitResolve \/ InitEnds \/ InitVoxels)

(***************************************************************************)
(* The stages of main, lines 463-470; each is also a function a caller may *)
(* enter the module by.                                                    *)
(***************************************************************************)
\* where a stage hands over to: the next line of main, or back to the caller
After(next) == IF entry = "main" THEN next ELSE "done"

\* line 463: match_fibers_to_clusters(atlas_streams['raw'], cluster_streams)
Match ==
    /\ pc = "match"
    /\ UNCHANGED registrations
    /\ \E r \in {match_fibers_to_clusters(streams_raw, cluster_streams, order) :
                    order \in Perms(DOMAIN cluster_streams)} :
          /\ matches' = IF r.exc = NoErr THEN r.val ELSE matches
          /\ err' = r.exc
          /\ status' = IF r.exc = NoErr THEN status ELSE 1
          /\ pc' = IF r.exc = NoErr THEN After("resolve") ELSE "exit"
    /\ UNCHANGED <<entry, output, anatFile, outDir, asset, files, target_f,
                   fName, convert_to_vtk, convert_to_trk, tmpDir, tmpDirs,
                   calls, todo, streams_raw, streams_reg, cluster_streams,
                   tract_map, tract_ends, affine>>

\* line 464: map_clusters_to_tracts(matches, tract_map.tract_map); the list
\* is rewritten in place, also when the call raises part-way
Resolve ==
    /\ pc = "resolve"
    /\ UNCHANGED registrations
    /\ \E r \in {map_clusters_to_tracts(matches, tract_map, tracts) :
                    tracts \in Perms(DOMAIN tract_map)} :
          /\ matches' = r.val
          /\ err' = r.exc
          /\ status' = IF r.exc = NoErr THEN status ELSE 1
          /\ pc' = IF r.exc = NoErr THEN After("ends") ELSE "exit"
    /\ UNCHANGED <<entry, output, anatFile, outDir, asset, files, target_f,
                   fName, convert_to_vtk, convert_to_trk, tmpDir, tmpDirs,
                   calls, todo, streams_raw, streams_reg, cluster_streams,
                   tract_map, tract_ends, affine>>

\* line 468: get_stream_ends(atlas_streams['registered'], matches)
StreamEnds ==
    /\ pc = "ends"
    /\ UNCHANGED registrations
    /\ \E r \in {get_stream_ends(streams_reg, matches)} :
          /\ tract_ends' = IF r.exc = NoErr THEN r.val ELSE tract_ends
          /\ err' = r.exc
          /\ status' = IF r.exc = NoErr THEN status ELSE 1
          /\ pc' = IF r.exc = NoErr THEN After("voxels") ELSE "exit"
    /\ UNCHANGED <<entry, output, anatFile, outDir, asset, files, target_f,
                   fName, convert_to_vtk, convert_to_trk, tmpDir, tmpDirs,
                   calls, todo, streams_raw, streams_reg, cluster_streams,
                   tract_map, matches, affine>>

\* lines 469-470 and 371-383: with an anatomy file, nib.load reads its affine
\* (or raises) and the end points are rewritten in place
Voxels ==
    /\ pc = "voxels"
    /\ UNCHANGED registrations
    /\ IF anatFile = "None"
       THEN /\ pc' = After("return")
            /\ UNCHANGED <<err, status, tract_ends, affine>>
       ELSE \/ /\ err' = [kind |-> "ImageFileError", args |-> <<anatFile>>]
               /\ status' = 1
               /\ pc' = "exit"
               /\ UNCHANGED <<tract_ends, affine>>
            \/ \E a \in Affines :
                  \E r \in {convert_mm_to_voxels(tract_ends, a)} :
                      /\ affine' = a
                      /\ tract_ends' = r.val
                      /\ err' = r.exc
                      /\ status' = IF r.exc = NoErr THEN status ELSE 1
                      /\ pc' = IF r.exc = NoErr THEN After("return") ELSE "exit"
    /\ UNCHANGED <<entry, output, anatFile, outDir, asset, files, target_f,
                   fName, convert_to_vtk, convert_to_trk, tmpDir, tmpDirs,
                   calls, todo, streams_raw, streams_reg, cluster_streams,
                   tract_map, matches>>

NextFn == Match \/ Resolve \/ StreamEnds \/ Voxels

SpecFn == InitFn /\ [][NextFn]_vars

(***************************************************************************)
(* convert_clusters_to_streams and get_streams_from_file.  The files of an *)
(* asset are looked at when the script first resolves it; later steps see  *)
(* what the converters add.  "work" is the directory the caller passes as  *)
(* outDir, "src" the directory of the raw file.                            *)
(***************************************************************************)
ExtSet == Range(Exts)

\* the cluster files a cluster directory may hold
FormatClusters == {"c1", "c2"}

\* the files a source directory may hold of an asset: any, for a caller of
\* the functions; the raw .vtp the package ships, for a run of the script
SrcCases == IF entry = "main" THEN {{".vtp"}} ELSE SUBSET ExtSet

\* an uncaught exception, or sys.exit(msg): the process ends with status 1
Raise(e) == err' = e /\ status' = 1 /\ pc' = "exit"
Go(p) == pc' = p /\ UNCHANGED <<err, status>>

\* lines 254-268: the cluster names found by glob, in the order of a set
ListClusters ==
    /\ pc = "list_clusters"
    /\ UNCHANGED registrations
    /\ \E found \in SUBSET FormatClusters : todo' \in Perms(found)
    /\ cluster_streams' = EmptyDict
    /\ Go("clusters")
    /\ UNCHANGED <<entry, output, anatFile, outDir, asset, files, target_f,
                   fName, convert_to_vtk, convert_to_trk, tmpDir, tmpDirs,
                   calls, streams_raw, streams_reg, tract_map, matches,
                   tract_ends, affine>>

\* the most processed file of an asset: that of the working directory, else
\* that of the source directory (lines 273-278 and 404-406)
most_advanced(fs) ==
    LET inWork == get_most_advanced_file("work", fs)
    IN  IF inWork # NoPath THEN inWork ELSE get_most_advanced_file("src", fs)

\* lines 272-281 and 284: the next cluster's file is resolved and handed to
\* get_streams_from_file; after the last one the dict is returned, and the
\* function's view of the last cluster's files goes with its locals
ClusterNext ==
    /\ pc = "clusters"
    /\ UNCHANGED registrations
    /\ IF todo = <<>>
       THEN /\ asset' = "None"
            /\ files' = {}
            /\ target_f' = NoPath
            /\ fName' = NoPath
            /\ calls' = <<>>
            /\ convert_to_vtk' = FALSE
            /\ convert_to_trk' = FALSE
            /\ Go(After("hierarchy"))
       ELSE /\ \E work \in SUBSET ExtSet, src \in SrcCases :
                  LET fs == FilesIn("work", work) \cup FilesIn("src", src)
                  IN  /\ asset' = Head(todo)
                      /\ files' = fs
                      /\ target_f' = most_advanced(fs)
                      /\ fName' = most_advanced(fs)
            /\ calls' = <<>>
            /\ Go("gsf_begin")
            /\ UNCHANGED <<convert_to_vtk, convert_to_trk>>
    /\ UNCHANGED <<entry, output, anatFile, outDir, tmpDir, tmpDirs, todo,
                   streams_raw, streams_reg, cluster_streams, tract_map,
                   matches, tract_ends, affine>>

\* lines 194-214: the conversions the extension asks for, and the directory
\* they write to
GsfBegin ==
    /\ pc = "gsf_begin"
    /\ UNCHANGED registrations
    /\ IF fName = NoPath
       THEN \* os.path.splitext(None)
            /\ Raise([kind |-> "AttributeError",
                      args |-> <<"'NoneType' object has no attribute 'rfind'">>])
            /\ UNCHANGED <<convert_to_vtk, convert_to_trk, tmpDir, tmpDirs, outDir>>
       ELSE IF fName.ext = ".vtp" /\ anatFile = "None"
       THEN /\ Raise(AnatomyRequired)
            /\ UNCHANGED <<convert_to_vtk, convert_to_trk, tmpDir, tmpDirs, outDir>>
       ELSE /\ convert_to_vtk' = (fName.ext = ".vtp")
            /\ convert_to_trk' = (fName.ext \in {".vtp", ".vtk"})
            /\ IF convert_to_trk' /\ outDir = "None"
               THEN IF "tempfile" \in ImportedNames
                    THEN /\ tmpDir' = "tmp"
                         /\ tmpDirs' = tmpDirs \cup {"tmp"}
                         /\ outDir' = "tmp"
                         /\ Go("gsf_vtk")
                    ELSE /\ Raise([kind |-> "NameError",
                                   args |-> <<"name 'tempfile' is not defined">>])
                         /\ UNCHANGED <<tmpDir, tmpDirs, outDir>>
               ELSE /\ tmpDir' = "None"
                    /\ Go("gsf_vtk")
                    /\ UNCHANGED <<tmpDirs, outDir>>
    /\ UNCHANGED <<entry, output, anatFile, asset, files, target_f, fName,
                   calls, todo, streams_raw, streams_reg, cluster_streams,
                   tract_map, matches, tract_ends, affine>>

\* lines 217-219 and convert_vtp_to_vtk: the pointset converter writes
\* <outDir>/<asset>.vtk
GsfToVtk ==
    /\ pc = "gsf_vtk"
    /\ UNCHANGED registrations
    /\ IF ~convert_to_vtk
       THEN /\ Go("gsf_trk")
            /\ UNCHANGED <<calls, files, fName>>
       ELSE \E outcome \in CheckCallOutcomes(FALSE) :
               /\ calls' = Append(calls, Call(PointsetConverter, asset,
                                              "unused", outcome))
               /\ files' = IF outcome = "ok"
                           THEN files \cup {Path(outDir, ".vtk")}
                           ELSE files
               /\ IF run_cmd(PointsetConverter, outcome) = NoErr
                  THEN fName' = Path(outDir, ".vtk") /\ Go("gsf_trk")
                  ELSE Raise(run_cmd(PointsetConverter, outcome))
                           /\ UNCHANGED fName
    /\ UNCHANGED <<entry, output, anatFile, outDir, asset, target_f,
                   convert_to_vtk, convert_to_trk, tmpDir, tmpDirs, todo,
                   streams_raw, streams_reg, cluster_streams, tract_map,
                   matches, tract_ends, affine>>

\* lines 221-223 and convert_vtk_to_trk: the debugger of line 149 is left by
\* "continue" or by "quit" (BdbQuit); then the trajectory converter, given
\* anatFile after -a, writes <outDir>/<asset>.trk
GsfToTrk ==
    /\ pc = "gsf_trk"
    /\ UNCHANGED registrations
    /\ IF ~convert_to_trk
       THEN /\ Go("gsf_extract")
            /\ UNCHANGED <<calls, files, fName>>
       ELSE \/ /\ Raise([kind |-> "BdbQuit", args |-> <<>>])
               /\ UNCHANGED <<calls, files, fName>>
            \/ \E outcome \in CheckCallOutcomes(anatFile = "None") :
                  /\ calls' = Append(calls, Call(TrajectoryConverter, asset,
                                                 anatFile, outcome))
                  /\ files' = IF outcome = "ok"
                              THEN files \cup {Path(outDir, ".trk")}
                              ELSE files
                  /\ IF run_cmd(TrajectoryConverter, outcome) = NoErr
                     THEN fName' = Path(outDir, ".trk") /\ Go("gsf_extract")
                     ELSE Raise(run_cmd(TrajectoryConverter, outcome))
                              /\ UNCHANGED fName
    /\ UNCHANGED <<entry, output, anatFile, outDir, asset, target_f,
                   convert_to_vtk, convert_to_trk, tmpDir, tmpDirs, todo,
                   streams_raw, streams_reg, cluster_streams, tract_map,
                   matches, tract_ends, affine>>

\* lines 225-232 and the caller's assignment: tv.read parses fName or raises;
\* the temporary directory, if any, is removed; the streamlines go to the
\* caller
GsfExtract ==
    /\ pc = "gsf_extract"
    /\ UNCHANGED registrations
    /\ \/ /\ Raise([kind |-> "IOError", args |-> <<"trackvis.read">>])
          /\ UNCHANGED <<files, tmpDirs, todo, streams_raw, streams_reg,
                         cluster_streams>>
       \/ /\ fName \in files
          /\ \E streams \in TrkContents(asset) :
                /\ tmpDirs' = tmpDirs \ {tmpDir}
                /\ files' = {f \in files : f.dir # tmpDir}
                /\ IF asset \in FormatClusters
                   THEN /\ cluster_streams' = (asset :> streams) @@ cluster_streams
                        /\ todo' = Tail(todo)
                        /\ Go("clusters")
                        /\ UNCHANGED <<streams_raw, streams_reg>>
                   ELSE IF asset = "atlas_reg"
                   THEN /\ streams_reg' = streams
                        /\ Go(After("list_clusters"))
                        /\ UNCHANGED <<streams_raw, cluster_streams, todo>>
                   ELSE /\ streams_raw' = streams
                        /\ Go(After("register"))
                        /\ UNCHANGED <<streams_reg, cluster_streams, todo>>
    /\ UNCHANGED <<entry, output, anatFile, outDir, asset, target_f, fName,
                   convert_to_vtk, convert_to_trk, tmpDir, calls, tract_map,
                   matches, tract_ends, affine>>

\* a call of convert_clusters_to_streams with a working directory
InitClusters ==
    /\ entry = "convert_clusters_to_streams"
    /\ pc = "list_clusters"
    /\ anatFile \in {"None", "anat.nii"}
    /\ outDir = "work"
    /\ asset = "None"
    /\ files = {}
    /\ target_f = NoPath
    /\ fName = NoPath

\* a call of get_streams_from_file on an existing file, with or without a
\* working directory
InitGsf ==
    /\ entry = "get_streams_from_file"
    /\ pc = "gsf_begin"
    /\ anatFile \in {"None", "anat.nii"}
    /\ outDir \in {"None", "work"}
    /\ asset = "file"
    /\ fName \in FilesIn("src", ExtSet)
    /\ target_f = fName
    /\ files = {fName}

InitFormat == IdleRun /\ IdleData /\ (InitClusters \/ InitGsf)

NextFormat ==
    ListClusters \/ ClusterNext \/ GsfBegin \/ GsfToVtk \/ GsfToTrk \/ GsfExtract

SpecFormat == InitFormat /\ [][NextFormat]_vars

(***************************************************************************)
(* The script: main, process_atlas and the lines that emit the result.     *)
(***************************************************************************)
\* the hierarchies a run of the script may read: they file c1 and c2
MainTractMaps ==
    {TractMapOf(owner) :
        owner \in {o \in [ClusterIds -> Tracts \cup {"none"}] : o["c3"] = "none"}}

\* lines 440-451 and 401-410: the working directories are made, the atlas's
\* most processed file is resolved and handed to get_streams_from_file
MainStart ==
    /\ pc = "main"
    /\ UNCHANGED registrations
    /\ \E work \in SUBSET ExtSet, src \in SrcCases :
          LET fs == FilesIn("work", work) \cup FilesIn("src", src)
          IN  /\ files' = fs
              /\ target_f' = most_advanced(fs)
              /\ fName' = most_advanced(fs)
    /\ asset' = "atlas"
    /\ outDir' = "work"
    /\ calls' = <<>>
    /\ Go("gsf_begin")
    /\ UNCHANGED <<entry, output, anatFile, convert_to_vtk, convert_to_trk,
                   tmpDir, tmpDirs, todo, streams_raw, streams_reg,
                   cluster_streams, tract_map, matches, tract_ends, affine>>

\* a plausible bug: the atlas is registered whatever the directory holds
needs_registration_always(fs) == TRUE

\* line 418: not os.path.isfile(atlas_reg), atlas_reg being <name>_reg.vtk
needs_registration(fs) == Path("work", ".vtk") \notin fs

\* lines 412-418 and 423-426: the directory of <name>_reg.vtk is looked at;
\* if <name>_reg.vtk is a file, the registered atlas's most processed file is
\* handed to get_streams_from_file with that directory as outDir
Register ==
    /\ pc = "register"
    /\ asset' = "atlas_reg"
    /\ calls' = <<>>
    /\ \E reg \in SUBSET ExtSet : files' = FilesIn("work", reg)
    /\ IF needs_registration(files')
       THEN /\ Go("registering")
            /\ UNCHANGED <<target_f, fName>>
       ELSE /\ target_f' = get_most_advanced_file("work", files')
            /\ fName' = target_f'
            /\ Go("gsf_begin")
    /\ UNCHANGED <<entry, output, anatFile, outDir, convert_to_vtk,
                   convert_to_trk, tmpDir, tmpDirs, registrations, todo,
                   streams_raw, streams_reg, cluster_streams, tract_map,
                   matches, tract_ends, affine>>

\* lines 419-426 and 91-100: register_tractography hands the command to
\* __run_cmd (the collaborator writes <name>_reg.vtk); then the registered
\* atlas's most processed file is handed to get_streams_from_file
RegisterTractography ==
    /\ pc = "registering"
    /\ registrations' = registrations + 1
    /\ \E outcome \in CheckCallOutcomes(FALSE) :
          /\ calls' = Append(calls, Call(Registration, asset, "unused", outcome))
          /\ files' = IF outcome = "ok"
                      THEN files \cup {Path("work", ".vtk")}
                      ELSE files
          /\ IF run_cmd(Registration, outcome) = NoErr
             THEN /\ target_f' = get_most_advanced_file("work", files')
                  /\ fName' = target_f'
                  /\ Go("gsf_begin")
             ELSE /\ Raise(run_cmd(Registration, outcome))
                  /\ UNCHANGED <<target_f, fName>>
    /\ UNCHANGED <<entry, output, anatFile, outDir, asset, convert_to_vtk,
                   convert_to_trk, tmpDir, tmpDirs, todo, streams_raw,
                   streams_reg, cluster_streams, tract_map, matches,
                   tract_ends, affine>>

\* line 459: MapTracts parses the hierarchy document, or raises
ParseHierarchy ==
    /\ pc = "hierarchy"
    /\ UNCHANGED registrations
    /\ \/ /\ Raise([kind |-> "ParseError", args |-> <<"mrml">>])
          /\ UNCHANGED tract_map
       \/ /\ tract_map' \in MainTractMaps
          /\ Go("match")
    /\ UNCHANGED <<entry, output, anatFile, outDir, asset, files, target_f,
                   fName, convert_to_vtk, convert_to_trk, tmpDir, tmpDirs,
                   calls, todo, streams_raw, streams_reg, cluster_streams,
                   matches, tract_ends, affine>>

\* lines 472-475: the working directory is removed if asked; the value
\* returned is json.dumps(tract_ends_voxels), a name line 470 binds only when
\* there is an anatomy file
Return ==
    /\ pc = "return"
    /\ UNCHANGED registrations
    /\ \E cleanup \in BOOLEAN : files' = IF cleanup THEN {} ELSE files
    /\ IF anatFile = "None"
       THEN Raise([kind |-> "UnboundLocalError",
                   args |-> <<"local variable 'tract_ends_voxels' referenced before assignment">>])
       ELSE Go("emit")
    /\ UNCHANGED <<entry, output, anatFile, outDir, asset, target_f, fName,
                   convert_to_vtk, convert_to_trk, tmpDir, tmpDirs, calls,
                   todo, streams_raw, streams_reg, cluster_streams, tract_map,
                   matches, tract_ends, affine>>

\* lines 532-536: the document is written to --output (which may fail to
\* open) or printed, and the script ends
Emit ==
    /\ pc = "emit"
    /\ UNCHANGED registrations
    /\ \/ /\ Raise([kind |-> "IOError", args |-> <<"open">>])
          /\ UNCHANGED output
       \/ /\ output' = [written |-> TRUE, body |-> tract_ends]
          /\ status' = 0
          /\ pc' = "exit"
          /\ UNCHANGED err
    /\ UNCHANGED <<entry, anatFile, outDir, asset, files, target_f,
                   fName, convert_to_vtk, convert_to_trk, tmpDir, tmpDirs,
                   calls, todo, streams_raw, streams_reg, cluster_streams,
                   tract_map, matches, tract_ends, affine>>

\* a run of the script, with or without <anatFile>
Init ==
    /\ entry = "main"
    /\ pc = "main"
    /\ anatFile \in {"None", "anat.nii"}
    /\ IdleRun /\ IdleFiles /\ IdleData

Next ==
    \/ MainStart \/ Register \/ RegisterTractography
    \/ ListClusters \/ ClusterNext
    \/ GsfBegin \/ GsfToVtk \/ GsfToTrk \/ GsfExtract
    \/ ParseHierarchy \/ Match \/ Resolve \/ StreamEnds \/ Voxels
    \/ Return \/ Emit

Spec == Init /\ [][Next]_vars

(***************************************************************************)
(* Properties of the format cascade, checked under SpecFormat.             *)
(***************************************************************************)
WorkHas(fs, e) == Path("work", e) \in fs

\* inside a call of get_streams_from_file
InGsf == pc \in {"gsf_begin", "gsf_vtk", "gsf_trk", "gsf_extract"}

\* C1: in convert_clusters_to_streams, for every cluster and every set of
\* files found, the pointset converter is invoked only if the working
\* directory held neither a .vtk nor a .trk of the cluster, and never after
\* the trajectory converter; the trajectory converter only if it held no
\* .trk; and a .trk found there is the file resolved, stays the file handed to
\* the parser, and no converter is invoked for it.
C1_ResumesFromMostProcessed ==
    [][entry = "convert_clusters_to_streams" =>
          /\ Len(calls') > Len(calls) =>
                LET c == calls'[Len(calls')]
                IN  /\ c.tool = PointsetConverter =>
                          /\ ~WorkHas(files, ".vtk")
                          /\ ~WorkHas(files, ".trk")
                          /\ \A k \in DOMAIN calls :
                                calls[k].asset = c.asset =>
                                    calls[k].tool # TrajectoryConverter
                    /\ c.tool = TrajectoryConverter => ~WorkHas(files, ".trk")
          /\ (pc = "clusters" /\ pc' = "gsf_begin" /\ WorkHas(files', ".trk")) =>
                target_f' = Path("work", ".trk")
          /\ (InGsf /\ target_f = Path("work", ".trk")) =>
                /\ calls' = calls
                /\ fName = target_f
      ]_vars

\* C1's case: the second cluster, of which the working directory held only
\* the raw .vtp, went through both converters, in order, and its streamlines
\* were read from the .trk they wrote
C1_Witness ==
    /\ entry = "convert_clusters_to_streams"
    /\ pc = "clusters"
    /\ todo = <<>>
    /\ DOMAIN cluster_streams = FormatClusters
    /\ target_f = Path("work", ".vtp")
    /\ Len(calls) = 2
    /\ calls[1].tool = PointsetConverter
    /\ calls[2].tool = TrajectoryConverter
    /\ fName = Path("work", ".trk")
    /\ cluster_streams[asset] # <<>>

\* C2 as claimed: a call of get_streams_from_file without a working directory
\* that needs a conversion allocates a temporary directory, and when the call
\* has ended, however it ended, no temporary directory is left.
C2_TempDirReleased ==
    (/\ entry = "get_streams_from_file"
     /\ pc \in {"done", "exit"}
     /\ target_f.ext # ".trk"
     /\ outDir = "None" \/ tmpDir # "None") =>
        /\ tmpDirs = {}
        /\ err # AnatomyRequired => tmpDir # "None"

\* C9 as claimed: the trajectory converter is never handed None as anatomy
\* file, and a call (with a working directory) that resolved a .vtk and has
\* no anatomy file ends with the exit that reports the missing anatomy file.
C9_VtkNeedsAnatomy ==
    /\ \A k \in DOMAIN calls :
          calls[k].tool = TrajectoryConverter => calls[k].anat # "None"
    /\ (/\ pc = "exit"
        /\ target_f.ext = ".vtk"
        /\ anatFile = "None"
        /\ outDir # "None") => err = AnatomyRequired

(***************************************************************************)
(* Properties of a run of the script, checked under Spec.                  *)
(***************************************************************************)
\* the end points in mm, as get_stream_ends extracts them
EndsMm == get_stream_ends(streams_reg, matches).val

\* C8 as claimed: a run whose stages have all succeeded goes on to emit a
\* document, and the document emitted holds the end points in mm when there
\* is no anatomy file and their voxel coordinates when there is one.
C8_EmitsEndpoints ==
    /\ [][pc = "return" => pc' = "emit"]_vars
    /\ [](output.written =>
            output.body = IF anatFile = "None"
                          THEN EndsMm
                          ELSE convert_mm_to_voxels(EndsMm, affine).val)

\* a command of this asset failed, or something raised
Failed == err # NoErr \/ \E k \in DOMAIN calls : calls[k].outcome # "ok"

\* C10: a command that failed or was missing is the last command the run
\* invoked (nothing follows it, it is not run again) and the run has ended
\* with an error; and once anything has raised, the process has ended with a
\* non-zero status, has emitted no document and takes no further step.
C10_FailureIsFatal ==
    /\ \A k \in DOMAIN calls :
          calls[k].outcome # "ok" => k = Len(calls) /\ err # NoErr
    /\ err # NoErr =>
          /\ pc = "exit"
          /\ status = 1
          /\ output = NoDoc
          /\ ~ENABLED Next

\* C10's case: after the atlas and the first cluster were read, the second
\* cluster's pointset conversion succeeded and its trajectory converter
\* exited with a failure
C10_Witness ==
    /\ entry = "main"
    /\ pc = "exit"
    /\ streams_reg # <<>>
    /\ DOMAIN cluster_streams # {}
    /\ Len(calls) = 2
    /\ calls[1].outcome = "ok"
    /\ calls[2].tool = TrajectoryConverter
    /\ calls[2].outcome = "CalledProcessError"
    /\ err.kind = "SystemExit"
    /\ status = 1
    /\ output = NoDoc

(***************************************************************************)
(* Properties of the stages, checked under SpecFn.                         *)
(***************************************************************************)
CalledMatch == entry = "match_fibers_to_clusters" /\ pc \in {"done", "exit"}

\* the positions (cluster, k) of the cluster lists
ClusterEntries(cs) == UNION {{<<c, k>> : k \in 1..Len(cs[c])} : c \in DOMAIN cs}

\* the clusters whose list holds a streamline pointwise identical to s
ClustersHolding(cs, s) == {c \in DOMAIN cs : \E k \in 1..Len(cs[c]) : cs[c][k] = s}

\* the raw streamlines are exactly partitioned across the cluster lists: each
\* is in one place of one list, and each place holds one raw streamline
ExactlyPartitioned(raw, cs) ==
    /\ \A i \in 1..Len(raw) :
          Cardinality({e \in ClusterEntries(cs) : cs[e[1]][e[2]] = raw[i]}) = 1
    /\ \A e \in ClusterEntries(cs) :
          Cardinality({i \in 1..Len(raw) : raw[i] = cs[e[1]][e[2]]}) = 1

\* the raw streamlines with no pointwise-identical counterpart in any cluster
Unmatched(raw, cs) == {i \in 1..Len(raw) : ClustersHolding(cs, raw[i]) = {}}

\* no streamline geometry occurs in more than one cluster
NoSharedGeometry(cs) ==
    \A c1, c2 \in DOMAIN cs :
        c1 # c2 => Range(cs[c1]) \cap Range(cs[c2]) = {}

\* C3: on raw streamlines exactly partitioned across the cluster lists, match
\* returns one label per raw streamline, in order, and label i is the one
\* cluster whose list holds a streamline pointwise identical to streamline i.
C3_MatchLabelsPartition ==
    (CalledMatch /\ ExactlyPartitioned(streams_raw, cluster_streams)) =>
        /\ pc = "done"
        /\ err = NoErr
        /\ Len(matches) = Len(streams_raw)
        /\ \A i \in 1..Len(streams_raw) :
              ClustersHolding(cluster_streams, streams_raw[i]) = {matches[i]}

\* C3's case: c1=[S1], c2=[S2], c3=[S3] and raw order [S2, S3, S1] matched
C3_Witness ==
    /\ CalledMatch
    /\ cluster_streams = [c \in ClusterIds |->
                             IF c = "c1" THEN <<S1>>
                             ELSE IF c = "c2" THEN <<S2>> ELSE <<S3>>]
    /\ streams_raw = <<S2, S3, S1>>
    /\ matches = <<"c2", "c3", "c1">>

MatchOutcome == [exc |-> err, val |-> matches]

\* C5 as claimed: whatever the cluster set, every order of iterating over the
\* clusters gives the outcome the call had.
C5_OrderIndependent ==
    CalledMatch =>
        \A order \in Perms(DOMAIN cluster_streams) :
            match_fibers_to_clusters(streams_raw, cluster_streams, order)
                = MatchOutcome

\* C5, amended: when no streamline geometry occurs in more than one cluster,
\* every order of iterating over the clusters gives the outcome the call had.
C5_OrderIndependentNoShared ==
    (CalledMatch /\ NoSharedGeometry(cluster_streams)) =>
        \A order \in Perms(DOMAIN cluster_streams) :
            match_fibers_to_clusters(streams_raw, cluster_streams, order)
                = MatchOutcome

\* C5's case: two clusters hold streamlines, no geometry is shared, and raw
\* streamlines were labelled with both
C5_Witness ==
    /\ CalledMatch
    /\ pc = "done"
    /\ NoSharedGeometry(cluster_streams)
    /\ Cardinality(Range(matches)) >= 2

\* the tracts whose list in the hierarchy names cluster c
Owners(tm, c) == {t \in DOMAIN tm : \E k \in 1..Len(tm[t]) : tm[t][k][1] = c}

\* C6: map_clusters_to_tracts returns, for labels that all have an owner, a
\* list of the same length whose element i is the tract owning label i; with
\* a label no tract owns it raises KeyError (naming the first such label)
\* instead of returning.
C6_ResolveOwner ==
    [][(pc = "resolve" /\ pc' # "resolve") =>
          IF \A i \in 1..Len(matches) : Owners(tract_map, matches[i]) # {}
          THEN /\ pc' # "exit"
               /\ err' = NoErr
               /\ Len(matches') = Len(matches)
               /\ \A i \in 1..Len(matches) :
                     Owners(tract_map, matches[i]) = {matches'[i]}
          ELSE /\ pc' = "exit"
               /\ err'.kind = "KeyError"
               /\ err'.args = <<matches[Min({i \in 1..Len(matches) :
                                   Owners(tract_map, matches[i]) = {}})]>>
      ]_vars

\* C6's case: tract A owns {c1, c2}, tract B owns {c3}, and three labels were
\* resolved to [A, B, A]
C6_Witness ==
    /\ entry = "map_clusters_to_tracts"
    /\ pc = "done"
    /\ \A c \in ClusterIds : Owners(tract_map, c) = IF c = "c3" THEN {"B"} ELSE {"A"}
    /\ matches = <<"A", "B", "A">>

\* the positions of the streamlines labelled t, in order
RECURSIVE LabelledFrom(_, _, _)
LabelledFrom(i, labels, t) ==
    IF i > Len(labels)
    THEN <<>>
    ELSE (IF labels[i] = t THEN <<i>> ELSE <<>>) \o LabelledFrom(i + 1, labels, t)

RECURSIVE SumOver(_, _)
SumOver(S, f) ==
    IF S = {}
    THEN 0
    ELSE LET x == CHOOSE y \in S : TRUE IN f[x] + SumOver(S \ {x}, f)

HasEnds ==
    \/ entry = "get_stream_ends" /\ pc = "done"
    \/ entry = "convert_mm_to_voxels"

\* C7: in every TractEndpoints value, before and after the conversion to
\* voxels, the tracts are those of the labels, every tract has as many starts
\* as ends, namely one per streamline labelled with it (so the lengths sum to
\* the number of streamlines); as extracted, the k-th start and end of a tract
\* are the first and last point of the k-th streamline labelled with it.
C7_StartsMatchEnds ==
    HasEnds =>
        /\ DOMAIN tract_ends = Range(matches)
        /\ \A t \in DOMAIN tract_ends :
              /\ Len(tract_ends[t].starts) = Len(tract_ends[t].ends)
              /\ Len(tract_ends[t].starts) = Len(LabelledFrom(1, matches, t))
        /\ SumOver(DOMAIN tract_ends,
                   [t \in DOMAIN tract_ends |-> Len(tract_ends[t].ends)])
               = Len(streams_reg)
        /\ entry = "get_stream_ends" =>
              \A t \in DOMAIN tract_ends :
                  LET idx == LabelledFrom(1, matches, t)
                  IN  \A k \in 1..Len(idx) :
                         /\ tract_ends[t].starts[k] = streams_reg[idx[k]][1]
                         /\ tract_ends[t].ends[k] =
                                streams_reg[idx[k]][Len(streams_reg[idx[k]])]

\* C7's case: the end points of three streamlines in two tracts, converted to
\* voxels by an affine that changes them
C7_Witness ==
    /\ entry = "convert_mm_to_voxels"
    /\ pc = "done"
    /\ affine = FlipShift
    /\ Len(streams_reg) = 3
    /\ DOMAIN tract_ends = Tracts

(***************************************************************************)
(* Properties of what a run of the script emits, checked under Spec.       *)
(***************************************************************************)
\* the tract the i-th streamline of the raw atlas belongs to: the owner of
\* the cluster whose file holds a pointwise identical streamline
RawTract(i) ==
    CHOOSE t \in Tracts :
        \E c \in ClustersHolding(cluster_streams, streams_raw[i]) :
            t \in Owners(tract_map, c)

\* a point of the registered atlas in the unit of the document: voxels of
\* the anatomy file
Emitted(p) == apply_affine(inv(affine), <<p>>)[1]

\* C11: in the document a run emits, the tracts are those of the raw atlas's
\* streamlines; the k-th start and end filed under a tract are the first and
\* last point (in the document's unit) of the registered atlas's streamline
\* at the index of the k-th raw streamline matched, through its cluster, to
\* that tract; and a run whose raw and registered atlases differ in number
\* of streamlines gets past get_stream_ends to no later stage, emits nothing
\* and ends with an error and status 1.
C11_RawLabelsRegisteredPoints ==
    /\ output.written =>
          LET tractOf == [i \in 1..Len(streams_raw) |-> RawTract(i)]
          IN  /\ Len(streams_reg) = Len(streams_raw)
              /\ DOMAIN output.body = Range(tractOf)
              /\ \A t \in DOMAIN output.body :
                    LET idx == LabelledFrom(1, tractOf, t)
                    IN  /\ Len(output.body[t].starts) = Len(idx)
                        /\ Len(output.body[t].ends) = Len(idx)
                        /\ \A k \in 1..Len(idx) :
                              LET stream == streams_reg[idx[k]]
                              IN  /\ output.body[t].starts[k] =
                                        Emitted(stream[1])
                                  /\ output.body[t].ends[k] =
                                        Emitted(stream[Len(stream)])
    /\ (entry = "main" /\ Len(streams_raw) # Len(streams_reg)) =>
          /\ pc \notin {"voxels", "return", "emit"}
          /\ output = NoDoc
          /\ pc = "exit" => err # NoErr /\ status = 1

\* C11's case: the raw atlas lists S2 then S1, in clusters of different
\* tracts; the registered atlas lists R1 then R2; the document emitted files
\* R1's ends under S2's tract and R2's under S1's, in voxels of an affine
\* that changes them
C11_Witness ==
    /\ entry = "main"
    /\ output.written
    /\ streams_raw = <<S2, S1>>
    /\ streams_reg = <<R1, R2>>
    /\ affine = FlipShift
    /\ RawTract(1) # RawTract(2)
    /\ output.body[RawTract(1)].starts = <<Emitted(R1[1])>>
    /\ output.body[RawTract(2)].ends = <<Emitted(R2[Len(R2)])>>

\* <name>_reg.vtk, the path the registered atlas is expected at, is a file
RegisteredAtlasPresent(fs) == Path("work", ".vtk") \in fs

\* C12: the count of registrations only ever goes from 0 to 1, in a step that
\* hands the registration command to __run_cmd, taken after the directory
\* was looked at and found without <name>_reg.vtk, and that leaves the
\* extraction of the registered atlas still to do; a look that finds
\* <name>_reg.vtk goes straight on to the extraction, and the step that
\* extracts the registered atlas's streamlines finds <name>_reg.vtk in place
\* and registers nothing.
C12_RegistersOnceIfAbsent ==
    [][/\ registrations' # registrations =>
             /\ registrations = 0
             /\ registrations' = 1
             /\ pc = "registering"
             /\ asset = "atlas_reg"
             /\ ~RegisteredAtlasPresent(files)
             /\ calls' = Append(calls, calls'[Len(calls')])
             /\ calls'[Len(calls')].tool = Registration
             /\ pc' \in {"gsf_begin", "exit"}
       /\ (Len(calls') > Len(calls)
             /\ calls'[Len(calls')].tool = Registration) =>
             registrations' = registrations + 1
       /\ pc' = "registering" =>
             /\ pc = "register"
             /\ ~RegisteredAtlasPresent(files')
             /\ registrations' = 0
       /\ (pc = "register" /\ RegisteredAtlasPresent(files')) =>
             /\ pc' = "gsf_begin"
             /\ registrations' = registrations
       /\ pc' = "register" =>
             /\ pc = "gsf_extract"
             /\ asset = "atlas"
             /\ registrations = 0
       /\ (entry = "main" /\ pc = "gsf_extract" /\ asset = "atlas_reg"
             /\ pc' # "exit") =>
             /\ RegisteredAtlasPresent(files)
             /\ registrations' = registrations
             /\ pc' = "list_clusters"
      ]_vars

\* C12's case: <name>_reg.vtk was not there, the atlas was registered once,
\* the file registration wrote was converted and its streamlines extracted
C12_Witness ==
    /\ entry = "main"
    /\ pc = "list_clusters"
    /\ registrations = 1
    /\ Len(calls) = 2
    /\ calls[1].tool = Registration
    /\ calls[2].tool = TrajectoryConverter
    /\ target_f = Path("work", ".vtk")
    /\ streams_reg # <<>>

====
